---- MODULE Spec2Model ----
(***************************************************************************)
(* Endorsement workflow of the wushu backend: the HTTP handlers of         *)
(* app/routers/{athlete,institute,tournament}.py over the four tables of   *)
(* app/core/models.py.  Every handler runs in one database session and     *)
(* ends with one commit or one rollback, so a handler is one step.         *)
(*                                                                         *)
(* Tables are sequences of rows; the position of a row is its primary key  *)
(* (uuid4() yields a key no stored row has).  Profile columns that no      *)
(* handler branches on (name, age, gender, division, dates, location) are  *)
(* left out of the rows.                                                   *)
(***************************************************************************)
EXTENDS Integers, Sequences, FiniteSets, TLC

\* ---- bounds --------------------------------------------------------------
MaxTournaments == 1
MaxEndorsements == 2

\* ---- request values ------------------------------------------------------
\* register refuses a contact already stored, so the contacts offered bound
\* the athlete and institution tables
AthleteContacts == {"a1", "a2"}
InstituteContacts == {"i1"}

\* passwords offered at registration and at login
RegisterPasswords == {"p1"}
LoginPasswords == {"p1", "p2"}

\* UserCreate forms (name left out)
AthleteUsers == [email : AthleteContacts, password : RegisterPasswords]
InstituteUsers == [email : InstituteContacts, password : RegisterPasswords]

AthleteIds == 1..Cardinality(AthleteContacts)
InstituteIds == 1..Cardinality(InstituteContacts)
TournamentIds == 1..MaxTournaments
EndorsementIds == 1..MaxEndorsements

\* TournamentResultsRequest bodies (without tournament_id)
ResultRequests ==
    { [winner |-> "w1", runnerup |-> "r1", winnerscore |-> 2, runnerscore |-> 1],
      [winner |-> "w2", runnerup |-> "r2", winnerscore |-> 3, runnerscore |-> 0] }

\* ---- HTTP status codes ---------------------------------------------------
OK == 200
BadRequest == 400
Unauthorized == 401
NotFound == 404
Internal == 500

\* Optional[str] = None
None == "None"
\* .first() on an empty result
NoRow == 0

VARIABLES athlete, institution, tournament, endorsements, resp, sessions

vars == <<athlete, institution, tournament, endorsements, resp, sessions>>

\* ---- the store -----------------------------------------------------------

\* uuid4(): a primary key that no row of the table has
uuid4(table) == Len(table) + 1

\* an insert that refuses a row equal to one already stored
Insert_distinct(table, row) ==
    IF \E i \in DOMAIN table : table[i] = row THEN table ELSE Append(table, row)

\* session.add(row); session.commit() of a new row
Insert(table, row) == Append(table, row)

\* select(...).where(pk == id).first()
Get(table, id) == IF id \in DOMAIN table THEN id ELSE NoRow

\* select(athlete).where(athlete.contact == email): the matching rows
RowsByContact(table, email) == { i \in DOMAIN table : table[i].contact = email }

\* `except Exception as e: ... raise HTTPException(status_code=500, ...)`:
\* HTTPException is an Exception, so the handler's own 4xx is caught too
ExceptException(raised) == Internal

\* foreign_key= columns of the endorsements table: the database refuses, at
\* commit, a row whose references do not resolve
ForeignKeysHold(row) ==
    /\ row.tournament_id \in DOMAIN tournament
    /\ row.endorser_id \in DOMAIN institution
    /\ row.athlete_id \in DOMAIN athlete

Init ==
    /\ athlete = << >>
    /\ institution = << >>
    /\ tournament = << >>
    /\ endorsements = << >>
    /\ resp = [op |-> "none", status |-> OK]
    /\ sessions = << >>

\* ---- rows ----------------------------------------------------------------

\* the credential utility: hash(plaintext) -> digest
hash_password(password) == <<"digest", password>>

\* the credential utility: verify(plaintext, digest) -> bool
verify_password(password, digest) == digest = hash_password(password)

\* athlete(athlete_id=uid, contact=user.email, password=hashed_password, ...)
NewAthlete(user) ==
    [contact |-> user.email, password |-> hash_password(user.password)]

\* institution(institute_id=uid, contact=user.email, password=hashed_password, ...)
NewInstitute(user) ==
    [contact |-> user.email, password |-> hash_password(user.password)]

\* tournament(..., ongoing=True): winner/runnerup None, scores default 0
NewTournament ==
    [ongoing |-> TRUE, winner |-> None, runnerup |-> None,
     winnerscore |-> 0, runnerscore |-> 0]

\* a request stored as already reviewed
NewEndorsement_reviewed(request) ==
    [tournament_id |-> request.tournament_id,
     endorser_id |-> request.institute_id,
     athlete_id |-> request.athlete_id,
     review |-> TRUE,
     approve |-> FALSE]

\* endorsements(endorsement_id=uuid4(), ..., review=False, approve=False)
NewEndorsement(request) ==
    [tournament_id |-> request.tournament_id,
     endorser_id |-> request.institute_id,
     athlete_id |-> request.athlete_id,
     review |-> FALSE,
     approve |-> FALSE]

\* a rejection stored as unreviewed
Reviewed_reopened(endorsement, approve) ==
    [endorsement EXCEPT !.review = approve, !.approve = approve]

\* a reviewed endorsement left as it is
Reviewed_once(endorsement, approve) ==
    IF endorsement.review
    THEN endorsement
    ELSE [endorsement EXCEPT !.review = TRUE, !.approve = approve]

\* a review that also rewrites the athlete reference
Reviewed_reassigned(endorsement, approve) ==
    [endorsement EXCEPT !.review = TRUE, !.approve = approve, !.athlete_id = 1]

\* the review flag left as it was
Reviewed_approveOnly(endorsement, approve) ==
    [endorsement EXCEPT !.approve = approve]

\* endorsement.review = True; endorsement.approve = request.approve
Reviewed(endorsement, approve) ==
    [endorsement EXCEPT !.review = TRUE, !.approve = approve]

\* the ongoing flag cleared with no result recorded
Finalized_flagOnly(existing_tournament, request) ==
    [existing_tournament EXCEPT !.ongoing = FALSE]

\* the ongoing flag flipped instead of cleared
Finalized_toggled(existing_tournament, request) ==
    [existing_tournament EXCEPT
        !.winner = request.winner,
        !.runnerup = request.runnerup,
        !.winnerscore = request.winnerscore,
        !.runnerscore = request.runnerscore,
        !.ongoing = ~existing_tournament.ongoing]

\* existing_tournament.winner = request.winner; ...; .ongoing = False
Finalized(existing_tournament, request) ==
    [existing_tournament EXCEPT
        !.winner = request.winner,
        !.runnerup = request.runnerup,
        !.winnerscore = request.winnerscore,
        !.runnerscore = request.runnerscore,
        !.ongoing = FALSE]

\* ---- projector -----------------------------------------------------------

\* rows of select(endorsements).where(tournament_id == t).where(athlete_id == a)
EndorsementsFor(a, t) ==
    { i \in DOMAIN endorsements :
        /\ endorsements[i].tournament_id = t
        /\ endorsements[i].athlete_id = a }

\* .first() of a query without ORDER BY: any matching row, NoRow when none
First(rows) == IF rows = {} THEN {NoRow} ELSE rows

\* only an approved endorsement grants the status
Status_approvedOnly(e) ==
    IF e = NoRow THEN FALSE ELSE endorsements[e].approve

\* the `not endorsement` test dropped
Status_noRowGranted(e) ==
    IF e # NoRow /\ endorsements[e].review /\ ~endorsements[e].approve
    THEN FALSE
    ELSE TRUE

\* if not endorsement or (endorsement.review and not endorsement.approve):
\*     status = False  else: status = True
Status(e) ==
    IF e = NoRow \/ (endorsements[e].review /\ ~endorsements[e].approve)
    THEN FALSE
    ELSE TRUE

\* select(func.count()).where(athlete_id == a, approve == True), row by row
RECURSIVE CountApproved(_, _)
CountApproved(a, n) ==
    IF n = 0 THEN 0
    ELSE CountApproved(a, n - 1)
         + (IF endorsements[n].athlete_id = a /\ endorsements[n].approve
            THEN 1 ELSE 0)

\* the approve == True filter dropped
matches_played_unfiltered(a) ==
    Cardinality({ i \in DOMAIN endorsements : endorsements[i].athlete_id = a })

\* endorsement_count = session.exec(select(func.count())...).first() or 0
matches_played(a) == CountApproved(a, Len(endorsements))

\* ---- handlers ------------------------------------------------------------

\* POST /athlete/register
register_athlete(user) ==
    LET existing_user == RowsByContact(athlete, user.email) IN
    IF existing_user # {}
    THEN \* raise HTTPException(400) inside the try: caught, rolled back
         /\ resp' = [op |-> "register_athlete",
                     status |-> ExceptException(BadRequest),
                     email |-> user.email]
         /\ UNCHANGED <<sessions,
                        athlete, institution, tournament, endorsements>>
    ELSE /\ uuid4(athlete) \in AthleteIds
         /\ athlete' = Insert(athlete, NewAthlete(user))
         /\ resp' = [op |-> "register_athlete", status |-> OK,
                     email |-> user.email]
         /\ UNCHANGED <<sessions, institution, tournament, endorsements>>

\* POST /institute/register
register_institute(user) ==
    LET existing_user == RowsByContact(institution, user.email) IN
    IF existing_user # {}
    THEN /\ resp' = [op |-> "register_institute",
                     status |-> ExceptException(BadRequest),
                     email |-> user.email]
         /\ UNCHANGED <<sessions,
                        athlete, institution, tournament, endorsements>>
    ELSE /\ institution' = Insert(institution, NewInstitute(user))
         /\ resp' = [op |-> "register_institute", status |-> OK,
                     email |-> user.email]
         /\ UNCHANGED <<sessions, athlete, tournament, endorsements>>

\* POST /tournament/createTournament
create_tournament ==
    /\ Len(tournament) < MaxTournaments
    /\ tournament' = Insert(tournament, NewTournament)
    /\ resp' = [op |-> "create_tournament", status |-> OK]
    /\ UNCHANGED <<sessions, athlete, institution, endorsements>>

\* PATCH /tournament/updateTournamentResults
update_tournament_results(tournament_id, request) ==
    LET existing_tournament == Get(tournament, tournament_id) IN
    IF existing_tournament = NoRow
    THEN /\ resp' = [op |-> "update_tournament_results",
                     status |-> ExceptException(NotFound),
                     tournament_id |-> tournament_id]
         /\ UNCHANGED <<sessions,
                        athlete, institution, tournament, endorsements>>
    ELSE /\ tournament' =
                [tournament EXCEPT
                    ![existing_tournament] =
                        Finalized(tournament[existing_tournament], request)]
         /\ resp' = [op |-> "update_tournament_results", status |-> OK,
                     tournament_id |-> tournament_id]
         /\ UNCHANGED <<sessions, athlete, institution, endorsements>>

\* POST /athlete/requestEndorsement
create_endorsement_request(request) ==
    LET new_endorse_request == NewEndorsement(request) IN
    IF ~ForeignKeysHold(new_endorse_request)
    THEN \* session.commit() raises IntegrityError: rollback, 500
         /\ resp' = [op |-> "create_endorsement_request",
                     status |-> Internal, request |-> request]
         /\ UNCHANGED <<sessions,
                        athlete, institution, tournament, endorsements>>
    ELSE /\ Len(endorsements) < MaxEndorsements
         /\ endorsements' = Insert(endorsements, new_endorse_request)
         /\ resp' = [op |-> "create_endorsement_request",
                     status |-> OK, request |-> request]
         /\ UNCHANGED <<sessions, athlete, institution, tournament>>

\* POST /institute/reviewEndorsement
review_endorsement(endorsement_id, approve) ==
    LET endorsement == Get(endorsements, endorsement_id) IN
    IF endorsement = NoRow
    THEN /\ resp' = [op |-> "review_endorsement",
                     status |-> ExceptException(NotFound),
                     endorsement_id |-> endorsement_id, approve |-> approve]
         /\ UNCHANGED <<sessions,
                        athlete, institution, tournament, endorsements>>
    ELSE /\ endorsements' =
                [endorsements EXCEPT
                    ![endorsement] = Reviewed(endorsements[endorsement], approve)]
         /\ resp' = [op |-> "review_endorsement", status |-> OK,
                     endorsement_id |-> endorsement_id, approve |-> approve,
                     endorsement |-> endorsements[endorsement]]
         /\ UNCHANGED <<sessions, athlete, institution, tournament>>

\* the ongoing == True filter dropped
OngoingTournaments_all == DOMAIN tournament

\* select(tournament).where(tournament.ongoing == True)
OngoingTournaments == { t \in DOMAIN tournament : tournament[t].ongoing }

\* GET /tournament/getOngoingTournaments
get_ongoing_tournaments(athlete_id) ==
    LET tournaments == OngoingTournaments IN
    \E endorsement \in [tournaments -> DOMAIN endorsements \cup {NoRow}] :
        /\ \A t \in tournaments :
                endorsement[t] \in First(EndorsementsFor(athlete_id, t))
        /\ resp' = [op |-> "get_ongoing_tournaments", status |-> OK,
                    athlete_id |-> athlete_id,
                    body |-> [t \in tournaments |-> Status(endorsement[t])]]
        /\ UNCHANGED <<sessions,
                       athlete, institution, tournament, endorsements>>

\* GET /athlete/getDetails
get_athlete_details(athlete_id) ==
    LET existing_athlete == Get(athlete, athlete_id) IN
    /\ resp' = IF existing_athlete = NoRow
               THEN [op |-> "get_athlete_details",
                     status |-> ExceptException(NotFound),
                     athlete_id |-> athlete_id]
               ELSE [op |-> "get_athlete_details", status |-> OK,
                     athlete_id |-> athlete_id,
                     matches_played |-> matches_played(athlete_id)]
    /\ UNCHANGED <<sessions, athlete, institution, tournament, endorsements>>

EndorsementRequests ==
    [athlete_id : AthleteIds, institute_id : InstituteIds,
     tournament_id : TournamentIds]

Next ==
    \/ \E user \in AthleteUsers : register_athlete(user)
    \/ \E user \in InstituteUsers : register_institute(user)
    \/ create_tournament
    \/ \E t \in TournamentIds, request \in ResultRequests :
            update_tournament_results(t, request)
    \/ \E request \in EndorsementRequests : create_endorsement_request(request)
    \/ \E e \in EndorsementIds, approve \in BOOLEAN :
            review_endorsement(e, approve)
    \/ \E a \in AthleteIds : get_ongoing_tournaments(a)
    \/ \E a \in AthleteIds : get_athlete_details(a)

Spec == Init /\ [][Next]_vars

\* ---- login ---------------------------------------------------------------

\* LoginRequest forms
AthleteLogins == [email : AthleteContacts, password : LoginPasswords]
InstituteLogins == [email : InstituteContacts, password : LoginPasswords]

\* POST /athlete/login
login_athlete(loginrequest) ==
    \E credentials \in First(RowsByContact(athlete, loginrequest.email)) :
        /\ resp' =
            IF \/ credentials = NoRow
               \/ ~verify_password(loginrequest.password,
                                   athlete[credentials].password)
            THEN \* raise HTTPException(401) inside the try: caught
                 [op |-> "login_athlete",
                  status |-> ExceptException(Unauthorized),
                  loginrequest |-> loginrequest]
            ELSE [op |-> "login_athlete", status |-> OK,
                  loginrequest |-> loginrequest, user_id |-> credentials]
        /\ UNCHANGED <<sessions,
                       athlete, institution, tournament, endorsements>>

\* POST /institute/login
login_institute(loginrequest) ==
    \E credentials \in First(RowsByContact(institution, loginrequest.email)) :
        /\ resp' =
            IF \/ credentials = NoRow
               \/ ~verify_password(loginrequest.password,
                                   institution[credentials].password)
            THEN [op |-> "login_institute",
                  status |-> ExceptException(Unauthorized),
                  loginrequest |-> loginrequest]
            ELSE [op |-> "login_institute", status |-> OK,
                  loginrequest |-> loginrequest, user_id |-> credentials]
        /\ UNCHANGED <<sessions,
                       athlete, institution, tournament, endorsements>>

NextAccounts ==
    \/ Next
    \/ \E loginrequest \in AthleteLogins : login_athlete(loginrequest)
    \/ \E loginrequest \in InstituteLogins : login_institute(loginrequest)

SpecAccounts == Init /\ [][NextAccounts]_vars

\* ---- profile updates ------------------------------------------------------

\* UpdateAthleteRequest forms (the columns the rows carry)
UpdateAthleteRequests == [athlete_id : AthleteIds, contact : AthleteContacts]

\* for field, value in update_fields.items(): setattr(updated_athlete, ...)
Updated(updated_athlete, request) ==
    [updated_athlete EXCEPT !.contact = request.contact]

\* PATCH /athlete/updateDetails
update_athlete_details(request) ==
    LET updated_athlete == Get(athlete, request.athlete_id) IN
    IF updated_athlete = NoRow
    THEN /\ resp' = [op |-> "update_athlete_details",
                     status |-> ExceptException(NotFound),
                     request |-> request]
         /\ UNCHANGED <<sessions,
                        athlete, institution, tournament, endorsements>>
    ELSE /\ athlete' =
                [athlete EXCEPT
                    ![updated_athlete] = Updated(athlete[updated_athlete], request)]
         /\ resp' = [op |-> "update_athlete_details", status |-> OK,
                     request |-> request]
         /\ UNCHANGED <<sessions, institution, tournament, endorsements>>

NextProfiles ==
    \/ \E user \in AthleteUsers : register_athlete(user)
    \/ \E user \in InstituteUsers : register_institute(user)
    \/ \E request \in UpdateAthleteRequests : update_athlete_details(request)
    \/ \E loginrequest \in AthleteLogins : login_athlete(loginrequest)
    \/ \E loginrequest \in InstituteLogins : login_institute(loginrequest)

SpecProfiles == Init /\ [][NextProfiles]_vars

\* ---- store failures ------------------------------------------------------

\* the statements of a handler that reach the database and can raise:
\* session.exec(select ...), session.commit(), session.refresh(row)
FailurePoints == {"exec", "commit", "refresh"}

\* a failed statement that leaves the handler's changes in the database
Persisted_noRollback(before, after, at) == after

\* what the database holds after the statement `at` raised and the handler's
\* `except` ran session.rollback(): a failure up to the commit discards the
\* changes, session.refresh() runs after the commit has made them durable
Persisted(before, after, at) == IF at = "refresh" THEN after ELSE before

\* POST /athlete/requestEndorsement, session.commit() raising a store error
\* (the handler runs no select and no refresh)
create_endorsement_request_error(request, at) ==
    LET new_endorse_request == NewEndorsement(request) IN
    /\ at = "commit"
    /\ Len(endorsements) < MaxEndorsements
    /\ endorsements' =
            Persisted(endorsements, Insert(endorsements, new_endorse_request), at)
    /\ resp' = [op |-> "create_endorsement_request",
                status |-> ExceptException(at),
                request |-> request, raised |-> at]
    /\ UNCHANGED <<sessions, athlete, institution, tournament>>

\* POST /institute/reviewEndorsement, one database statement raising
review_endorsement_error(endorsement_id, approve, at) ==
    LET endorsement == Get(endorsements, endorsement_id) IN
    /\ at \in FailurePoints
    /\ at # "exec" => endorsement # NoRow
    /\ endorsements' =
            IF at = "exec"
            THEN endorsements
            ELSE Persisted(endorsements,
                           [endorsements EXCEPT
                               ![endorsement] =
                                   Reviewed(endorsements[endorsement], approve)],
                           at)
    /\ resp' = [op |-> "review_endorsement", status |-> ExceptException(at),
                endorsement_id |-> endorsement_id, approve |-> approve,
                raised |-> at]
    /\ UNCHANGED <<sessions, athlete, institution, tournament>>

\* PATCH /tournament/updateTournamentResults, one database statement raising
update_tournament_results_error(tournament_id, request, at) ==
    LET existing_tournament == Get(tournament, tournament_id) IN
    /\ at \in FailurePoints
    /\ at # "exec" => existing_tournament # NoRow
    /\ tournament' =
            IF at = "exec"
            THEN tournament
            ELSE Persisted(tournament,
                           [tournament EXCEPT
                               ![existing_tournament] =
                                   Finalized(tournament[existing_tournament],
                                             request)],
                           at)
    /\ resp' = [op |-> "update_tournament_results",
                status |-> ExceptException(at),
                tournament_id |-> tournament_id, request |-> request,
                raised |-> at]
    /\ UNCHANGED <<sessions, athlete, institution, endorsements>>

\* the store after one athlete and one institute have registered
InitRegistered ==
    /\ \E user \in AthleteUsers : athlete = Insert(<< >>, NewAthlete(user))
    /\ \E user \in InstituteUsers :
            institution = Insert(<< >>, NewInstitute(user))
    /\ tournament = << >>
    /\ endorsements = << >>
    /\ resp = [op |-> "none", status |-> OK]
    /\ sessions = << >>

NextStoreFailure ==
    \/ create_tournament
    \/ \E t \in TournamentIds, request \in ResultRequests :
            update_tournament_results(t, request)
    \/ \E request \in EndorsementRequests : create_endorsement_request(request)
    \/ \E e \in EndorsementIds, approve \in BOOLEAN :
            review_endorsement(e, approve)
    \/ \E request \in EndorsementRequests, at \in FailurePoints :
            create_endorsement_request_error(request, at)
    \/ \E e \in EndorsementIds, approve \in BOOLEAN, at \in FailurePoints :
            review_endorsement_error(e, approve, at)
    \/ \E t \in TournamentIds, request \in ResultRequests, at \in FailurePoints :
            update_tournament_results_error(t, request, at)

SpecStoreFailure == InitRegistered /\ [][NextStoreFailure]_vars

\* ---- institution views ---------------------------------------------------

\* the columns core/models.py declares on the table classes
EndorsementColumns ==
    {"endorsement_id", "tournament_id", "endorser_id", "athlete_id",
     "review", "approve"}
AthleteColumns ==
    {"athlete_id", "name", "age", "gender", "division", "contact", "password"}

\* Table.column in a query: AttributeError unless the class declares it
HasAttr(columns, names) == names \subseteq columns

\* GET /institute/getEndorsements.  The select names
\* endorsements.endorsements_id and athlete.matches_played (and the function
\* rebinds `endorsements` at line 208, which makes the name local)
get_pending_endorsements(endorser_id) ==
    LET results ==
            { i \in DOMAIN endorsements :
                /\ endorsements[i].endorser_id = endorser_id
                /\ endorsements[i].review = FALSE }
    IN
    /\ resp' =
        IF \/ ~HasAttr(EndorsementColumns,
                       {"endorsements_id", "tournament_id", "athlete_id",
                        "endorser_id", "review"})
           \/ ~HasAttr(AthleteColumns,
                       {"name", "age", "gender", "division", "contact",
                        "matches_played", "athlete_id"})
        THEN [op |-> "get_pending_endorsements",
              status |-> ExceptException("AttributeError"),
              endorser_id |-> endorser_id]
        ELSE IF results = {}
        THEN [op |-> "get_pending_endorsements",
              status |-> ExceptException(NotFound),
              endorser_id |-> endorser_id]
        ELSE [op |-> "get_pending_endorsements", status |-> OK,
              endorser_id |-> endorser_id, body |-> results]
    /\ UNCHANGED <<sessions, athlete, institution, tournament, endorsements>>

\* GET /institute/getApprovedAthletes.  The subquery names
\* endorsements.institute_id; the table's column is endorser_id
get_approved_athletes(institute_id) ==
    LET subquery ==
            { endorsements[i].athlete_id : i \in
                { j \in DOMAIN endorsements :
                    /\ endorsements[j].institute_id = institute_id
                    /\ endorsements[j].approve = TRUE
                    /\ tournament[endorsements[j].tournament_id].ongoing = TRUE } }
        athletes == { a \in DOMAIN athlete : a \in subquery }
    IN
    /\ resp' =
        IF ~HasAttr(EndorsementColumns,
                    {"athlete_id", "tournament_id", "institute_id", "approve"})
        THEN [op |-> "get_approved_athletes",
              status |-> ExceptException("AttributeError"),
              institute_id |-> institute_id]
        ELSE IF athletes = {}
        THEN [op |-> "get_approved_athletes",
              status |-> ExceptException(NotFound),
              institute_id |-> institute_id]
        ELSE [op |-> "get_approved_athletes", status |-> OK,
              institute_id |-> institute_id, body |-> athletes]
    /\ UNCHANGED <<sessions, athlete, institution, tournament, endorsements>>

NextViews ==
    \/ Next
    \/ \E i \in InstituteIds : get_pending_endorsements(i)
    \/ \E i \in InstituteIds : get_approved_athletes(i)

SpecViews == Init /\ [][NextViews]_vars

\* ---- concurrent reviews --------------------------------------------------

\* the requests in flight, each with a database session of its own
Requests == {1, 2}

\* a flush that writes the review column alone
Flushed_reviewOnly(stored, loaded, modified) ==
    [stored EXCEPT !.review = modified.review]

\* UPDATE endorsements SET <the columns whose value differs from the value
\* the session loaded> WHERE endorsement_id = ...: the ORM's flush writes
\* only the attributes that changed, every other column keeps what the
\* store holds at that moment
Flushed(stored, loaded, modified) ==
    [column \in DOMAIN stored |->
        IF modified[column] # loaded[column]
        THEN modified[column]
        ELSE stored[column]]

\* the requests that have committed
Committed == { q \in Requests : sessions[q].pc \in {"refresh", "done"} }

\* endorsement = session.exec(select(endorsements).where(...)).first()
review_select(r) ==
    LET request == sessions[r]
        endorsement == Get(endorsements, request.endorsement_id)
    IN
    /\ request.pc = "select"
    /\ sessions' =
        IF endorsement = NoRow
        THEN [sessions EXCEPT ![r].pc = "failed",
                              ![r].status = ExceptException(NotFound)]
        ELSE [sessions EXCEPT ![r].pc = "commit",
                              ![r].endorsement = endorsements[endorsement]]
    /\ UNCHANGED <<athlete, institution, tournament, endorsements, resp>>

\* endorsement.review = True; endorsement.approve = request.approve;
\* session.add(endorsement); session.commit()
review_commit(r) ==
    LET request == sessions[r] IN
    /\ request.pc = "commit"
    /\ endorsements' =
        [endorsements EXCEPT ![request.endorsement_id] =
            Flushed(@, request.endorsement,
                    Reviewed(request.endorsement, request.approve))]
    /\ sessions' = [sessions EXCEPT ![r].pc = "refresh",
                                    ![r].order = Cardinality(Committed) + 1]
    /\ UNCHANGED <<athlete, institution, tournament, resp>>

\* session.refresh(endorsement); return {"message": ...}
review_refresh(r) ==
    LET request == sessions[r] IN
    /\ request.pc = "refresh"
    /\ sessions' =
        [sessions EXCEPT ![r].pc = "done",
                         ![r].status = OK,
                         ![r].endorsement = endorsements[request.endorsement_id]]
    /\ UNCHANGED <<athlete, institution, tournament, endorsements, resp>>

\* the flags an endorsement can have been left with by reviews
ReviewStates ==
    { <<FALSE, FALSE>>, <<TRUE, FALSE>>, <<TRUE, TRUE>> }

\* one athlete, one institution and one tournament on record, one
\* endorsement created and possibly reviewed, and two review requests
\* received but not yet started
InitRace ==
    /\ \E user \in AthleteUsers : athlete = Insert(<< >>, NewAthlete(user))
    /\ \E user \in InstituteUsers :
            institution = Insert(<< >>, NewInstitute(user))
    /\ tournament = Insert(<< >>, NewTournament)
    /\ \E flags \in ReviewStates :
            endorsements =
                Insert(<< >>,
                       [NewEndorsement([athlete_id |-> 1, tournament_id |-> 1,
                                        institute_id |-> 1])
                            EXCEPT !.review = flags[1], !.approve = flags[2]])
    /\ resp = [op |-> "none", status |-> OK]
    /\ sessions \in
        [Requests ->
            [pc : {"select"}, endorsement_id : EndorsementIds,
             approve : BOOLEAN, endorsement : {NoRow}, status : {None},
             order : {0}]]

NextRace ==
    \/ \E r \in Requests : review_select(r)
    \/ \E r \in Requests : review_commit(r)
    \/ \E r \in Requests : review_refresh(r)

SpecRace == InitRace /\ [][NextRace]_vars

\* ---- reads during a review ------------------------------------------------

\* the endorsement still pending when the two review requests arrive
InitRead ==
    /\ InitRace
    /\ ~endorsements[1].review
    /\ ~endorsements[1].approve

\* the athlete's reads run between the steps of the reviews
NextRead ==
    \/ \E r \in Requests : review_select(r)
    \/ \E r \in Requests : review_commit(r)
    \/ \E r \in Requests : review_refresh(r)
    \/ \E a \in AthleteIds : get_ongoing_tournaments(a)
    \/ \E a \in AthleteIds : get_athlete_details(a)

SpecRead == InitRead /\ [][NextRead]_vars

\* ---- concurrent finalizations ----------------------------------------------

\* existing_tournament = session.exec(select(tournament).where(...)).first()
finalize_select(r) ==
    LET request == sessions[r]
        existing_tournament == Get(tournament, request.tournament_id)
    IN
    /\ request.pc = "select"
    /\ sessions' =
        IF existing_tournament = NoRow
        THEN [sessions EXCEPT ![r].pc = "failed",
                              ![r].status = ExceptException(NotFound)]
        ELSE [sessions EXCEPT
                ![r].pc = "commit",
                ![r].existing_tournament = tournament[existing_tournament]]
    /\ UNCHANGED <<athlete, institution, tournament, endorsements, resp>>

\* existing_tournament.winner = request.winner; ...; .ongoing = False;
\* session.add(existing_tournament); session.commit()
finalize_commit(r) ==
    LET request == sessions[r] IN
    /\ request.pc = "commit"
    /\ tournament' =
        [tournament EXCEPT ![request.tournament_id] =
            Flushed(@, request.existing_tournament,
                    Finalized(request.existing_tournament, request.request))]
    /\ sessions' = [sessions EXCEPT ![r].pc = "refresh",
                                    ![r].order = Cardinality(Committed) + 1]
    /\ UNCHANGED <<athlete, institution, endorsements, resp>>

\* session.refresh(existing_tournament); return {"message": ...}
finalize_refresh(r) ==
    LET request == sessions[r] IN
    /\ request.pc = "refresh"
    /\ sessions' =
        [sessions EXCEPT
            ![r].pc = "done",
            ![r].status = OK,
            ![r].existing_tournament = tournament[request.tournament_id]]
    /\ UNCHANGED <<athlete, institution, tournament, endorsements, resp>>

\* one tournament on record, ongoing or already finalized, and two
\* finalize requests received but not yet started
InitFinalizeRace ==
    /\ athlete = << >>
    /\ institution = << >>
    /\ \E existing_tournament \in
            {NewTournament}
                \cup { Finalized(NewTournament, request) :
                            request \in ResultRequests } :
            tournament = Insert(<< >>, existing_tournament)
    /\ endorsements = << >>
    /\ resp = [op |-> "none", status |-> OK]
    /\ sessions \in
        [Requests ->
            [pc : {"select"}, tournament_id : TournamentIds,
             request : ResultRequests, existing_tournament : {NoRow},
             status : {None}, order : {0}]]

NextFinalizeRace ==
    \/ \E r \in Requests : finalize_select(r)
    \/ \E r \in Requests : finalize_commit(r)
    \/ \E r \in Requests : finalize_refresh(r)

SpecFinalizeRace == InitFinalizeRace /\ [][NextFinalizeRace]_vars

\* ---- properties ----------------------------------------------------------

Pending(e) == ~e.review /\ ~e.approve
Approved(e) == e.review /\ e.approve
Rejected(e) == e.review /\ ~e.approve

\* the approved endorsements of athlete a in an endorsements table
ApprovedOf(table, a) ==
    { i \in DOMAIN table : table[i].athlete_id = a /\ table[i].approve }

\* C1: in every reachable state every stored endorsement has
\* approve => review, and ~review => ~approve.
C1_ApprovedImpliesReviewed ==
    \A i \in DOMAIN endorsements :
        /\ endorsements[i].approve => endorsements[i].review
        /\ ~endorsements[i].review => ~endorsements[i].approve

\* C1 witness: a review has just approved one endorsement while another
\* is still pending.
C1_Witness ==
    /\ resp.op = "review_endorsement"
    /\ resp.status = OK
    /\ Approved(endorsements[resp.endorsement_id])
    /\ \E j \in DOMAIN endorsements : Pending(endorsements[j])

\* C2: a successful create_endorsement_request appends exactly one row under
\* a key no stored row had, with the three references of the request and
\* review = approve = FALSE, and leaves every stored row as it was.
C2_CreateAddsOnePending ==
    [][ (resp'.op = "create_endorsement_request" /\ resp'.status = OK) =>
          LET new == DOMAIN endorsements' \ DOMAIN endorsements IN
          /\ Cardinality(new) = 1
          /\ \A i \in DOMAIN endorsements : endorsements'[i] = endorsements[i]
          /\ \A i \in new :
                /\ endorsements'[i].athlete_id = resp'.request.athlete_id
                /\ endorsements'[i].endorser_id = resp'.request.institute_id
                /\ endorsements'[i].tournament_id = resp'.request.tournament_id
                /\ Pending(endorsements'[i])
      ]_vars

\* C2 witness: a request has succeeded on a store that already held a
\* reviewed endorsement.
C2_Witness ==
    /\ resp.op = "create_endorsement_request"
    /\ resp.status = OK
    /\ Len(endorsements) = 2
    /\ endorsements[1].review
    /\ Pending(endorsements[2])

\* C3: the status view lists every ongoing tournament, and for each: no
\* endorsement of the pair gives FALSE; FALSE is given only when there is
\* none or a rejected one; TRUE only when there is an approved or a pending
\* one.
C3_EligibilityPolicy ==
    resp.op = "get_ongoing_tournaments" =>
        /\ DOMAIN resp.body = OngoingTournaments
        /\ \A t \in DOMAIN resp.body :
            LET rows == EndorsementsFor(resp.athlete_id, t) IN
            /\ rows = {} => resp.body[t] = FALSE
            /\ resp.body[t] = FALSE =>
                    \/ rows = {}
                    \/ \E i \in rows : Rejected(endorsements[i])
            /\ resp.body[t] = TRUE =>
                    \E i \in rows :
                        Approved(endorsements[i]) \/ Pending(endorsements[i])

\* C3 witness: the view has answered TRUE for a pair whose only endorsement
\* is pending.
C3_Witness ==
    /\ resp.op = "get_ongoing_tournaments"
    /\ \E t \in DOMAIN resp.body :
        /\ resp.body[t] = TRUE
        /\ EndorsementsFor(resp.athlete_id, t) # {}
        /\ \A i \in EndorsementsFor(resp.athlete_id, t) :
                Pending(endorsements[i])

\* C4 as stated: with at most one endorsement of the pair, the status is
\* TRUE unless that endorsement is a rejection (TRUE when there is none).
C4_TrueUnlessRejected ==
    resp.op = "get_ongoing_tournaments" =>
        \A t \in DOMAIN resp.body :
            LET rows == EndorsementsFor(resp.athlete_id, t) IN
            Cardinality(rows) <= 1 =>
                resp.body[t] = ~(\E i \in rows : Rejected(endorsements[i]))

\* C4 amended: with at most one endorsement of the pair, the status is TRUE
\* exactly when that endorsement exists and is not a rejection (FALSE when
\* there is none).
C4_TrueIffOnRecordAndNotRejected ==
    resp.op = "get_ongoing_tournaments" =>
        \A t \in DOMAIN resp.body :
            LET rows == EndorsementsFor(resp.athlete_id, t) IN
            Cardinality(rows) <= 1 =>
                resp.body[t] = (\E i \in rows : ~Rejected(endorsements[i]))

\* C4 witness: the view has answered FALSE for a pair with no endorsement
\* while another athlete holds one for the same tournament.
C4_Witness ==
    /\ resp.op = "get_ongoing_tournaments"
    /\ \E t \in DOMAIN resp.body :
        /\ EndorsementsFor(resp.athlete_id, t) = {}
        /\ resp.body[t] = FALSE
        /\ \E i \in DOMAIN endorsements : endorsements[i].tournament_id = t

\* C5: the details of an existing athlete are returned, and matches_played
\* is the number of stored endorsements of that athlete with approve = TRUE.
C5_MatchesPlayedIsApprovedCount ==
    resp.op = "get_athlete_details" =>
        /\ resp.athlete_id \in DOMAIN athlete => resp.status = OK
        /\ resp.status = OK =>
              resp.matches_played =
                  Cardinality(ApprovedOf(endorsements, resp.athlete_id))

\* C5 witness: an athlete with one approved and one other endorsement has
\* been read with matches_played = 1.
C5_Witness ==
    /\ resp.op = "get_athlete_details"
    /\ resp.status = OK
    /\ resp.matches_played = 1
    /\ Cardinality({ i \in DOMAIN endorsements :
                        endorsements[i].athlete_id = resp.athlete_id }) = 2

\* C6 as stated: a successful review with approve = TRUE leaves the
\* approved-endorsement count (matches_played) of the endorsement's athlete
\* exactly one above its value before the call.
C6_ApproveAddsOneMatch ==
    [][ (resp'.op = "review_endorsement" /\ resp'.status = OK /\ resp'.approve) =>
          LET a == endorsements[resp'.endorsement_id].athlete_id IN
          Cardinality(ApprovedOf(endorsements', a)) =
              Cardinality(ApprovedOf(endorsements, a)) + 1
      ]_vars

\* C7 as stated: once an endorsement is reviewed (approved or rejected), no
\* step changes its review or approve flag.
C7_ReviewedIsFinal ==
    [][ \A i \in DOMAIN endorsements :
            endorsements[i].review =>
                /\ endorsements'[i].review = endorsements[i].review
                /\ endorsements'[i].approve = endorsements[i].approve
      ]_vars

\* C8 as stated: a review of an id that resolves to no stored endorsement
\* answers 404 Not Found and leaves the store unchanged.
C8_ReviewUnknownIsNotFound ==
    [][ (/\ resp'.op = "review_endorsement"
         /\ resp'.endorsement_id \notin DOMAIN endorsements) =>
            /\ resp'.status = NotFound
            /\ UNCHANGED <<athlete, institution, tournament, endorsements>>
      ]_vars

\* C9: every tournament is created with ongoing = TRUE, and no step takes a
\* tournament from ongoing = FALSE back to ongoing = TRUE.
C9_FinalizationOneWay ==
    [][ /\ \A t \in DOMAIN tournament :
                ~tournament[t].ongoing => ~tournament'[t].ongoing
        /\ \A t \in DOMAIN tournament' \ DOMAIN tournament :
                tournament'[t].ongoing
      ]_vars

\* C9 witness: an endorsement has been requested for a tournament that was
\* finalized before, and the tournament is still finalized.
C9_Witness ==
    /\ resp.op = "create_endorsement_request"
    /\ resp.status = OK
    /\ ~tournament[resp.request.tournament_id].ongoing

\* C10 as stated: once a tournament has ongoing = FALSE, no step changes its
\* winner, runnerup, winnerscore or runnerscore.
C10_ResultsImmutable ==
    [][ \A t \in DOMAIN tournament :
            ~tournament[t].ongoing =>
                /\ tournament'[t].winner = tournament[t].winner
                /\ tournament'[t].runnerup = tournament[t].runnerup
                /\ tournament'[t].winnerscore = tournament[t].winnerscore
                /\ tournament'[t].runnerscore = tournament[t].runnerscore
      ]_vars

\* a response to a call during which a database statement raised
StoreFailed(r) == "raised" \in DOMAIN r

\* C11 as stated: when the store fails during createRequest, review or
\* finalize, the call answers 500 and the persisted state is the state
\* before the call.
C11_FailureLeavesStateBefore ==
    [][ StoreFailed(resp') =>
            /\ resp'.status = Internal
            /\ UNCHANGED <<athlete, institution, tournament, endorsements>>
      ]_vars

\* C11 amended: when the store fails during createRequest, review or
\* finalize, the call answers 500 and nothing is applied in part: a failure
\* before or at the commit leaves the state before the call; a failure of
\* the refresh after the commit leaves the whole mutation (review = TRUE
\* with approve as requested; all four result fields with ongoing = FALSE).
C11_FailureAppliesAllOrNothing ==
    [][ StoreFailed(resp') =>
            /\ resp'.status = Internal
            /\ UNCHANGED <<athlete, institution>>
            /\ resp'.raised # "refresh" => UNCHANGED <<tournament, endorsements>>
            /\ (resp'.raised = "refresh" /\ resp'.op = "review_endorsement") =>
                    /\ UNCHANGED tournament
                    /\ DOMAIN endorsements' = DOMAIN endorsements
                    /\ \A i \in DOMAIN endorsements :
                        IF i = resp'.endorsement_id
                        THEN /\ endorsements'[i].review = TRUE
                             /\ endorsements'[i].approve = resp'.approve
                             /\ endorsements'[i].athlete_id = endorsements[i].athlete_id
                             /\ endorsements'[i].endorser_id = endorsements[i].endorser_id
                             /\ endorsements'[i].tournament_id = endorsements[i].tournament_id
                        ELSE endorsements'[i] = endorsements[i]
            /\ (resp'.raised = "refresh" /\ resp'.op = "update_tournament_results") =>
                    /\ UNCHANGED endorsements
                    /\ DOMAIN tournament' = DOMAIN tournament
                    /\ \A t \in DOMAIN tournament :
                        IF t = resp'.tournament_id
                        THEN tournament'[t] =
                                [ongoing |-> FALSE,
                                 winner |-> resp'.request.winner,
                                 runnerup |-> resp'.request.runnerup,
                                 winnerscore |-> resp'.request.winnerscore,
                                 runnerscore |-> resp'.request.runnerscore]
                        ELSE tournament'[t] = tournament[t]
      ]_vars

\* C11 witness: the commit of an approving review has failed and the
\* endorsement is still pending.
C11_Witness ==
    /\ StoreFailed(resp)
    /\ resp.op = "review_endorsement"
    /\ resp.raised = "commit"
    /\ resp.approve
    /\ Pending(endorsements[resp.endorsement_id])

\* C12 as stated: the roster of an institution is answered, and it is
\* exactly the athletes holding an approved endorsement reviewed by that
\* institution for a tournament that is ongoing.
C12_RosterIsApprovedOngoing ==
    resp.op = "get_approved_athletes" =>
        /\ resp.status = OK
        /\ resp.body =
            { a \in DOMAIN athlete :
                \E i \in DOMAIN endorsements :
                    /\ endorsements[i].athlete_id = a
                    /\ endorsements[i].approve
                    /\ endorsements[i].endorser_id = resp.institute_id
                    /\ tournament[endorsements[i].tournament_id].ongoing }

\* C13 as stated: the pending list of an institution is answered, with one
\* entry for exactly each stored endorsement of that institution whose
\* review flag is FALSE.
C13_PendingListIsUnreviewed ==
    resp.op = "get_pending_endorsements" =>
        /\ resp.status = OK
        /\ resp.body =
            { i \in DOMAIN endorsements :
                /\ endorsements[i].endorser_id = resp.endorser_id
                /\ ~endorsements[i].review }

\* C14 as stated: two evaluations of the status view for the same athlete
\* on the same store state give the same answer, whichever order the store
\* returns the rows of a pair in.
C14_EligibilityDeterministic ==
    [][ (/\ resp.op = "get_ongoing_tournaments"
         /\ resp'.op = "get_ongoing_tournaments"
         /\ resp'.athlete_id = resp.athlete_id
         /\ UNCHANGED <<athlete, institution, tournament, endorsements>>) =>
            resp'.body = resp.body
      ]_vars

\* C15 as stated: registering an athlete or an institution with a contact
\* that a stored record of that kind already holds answers 400 and adds no
\* record.
C15_DuplicateContactIsConflict ==
    [][ /\ (/\ resp'.op = "register_athlete"
            /\ RowsByContact(athlete, resp'.email) # {}) =>
                /\ resp'.status = BadRequest
                /\ UNCHANGED <<athlete, institution, tournament, endorsements>>
        /\ (/\ resp'.op = "register_institute"
            /\ RowsByContact(institution, resp'.email) # {}) =>
                /\ resp'.status = BadRequest
                /\ UNCHANGED <<athlete, institution, tournament, endorsements>>
      ]_vars

\* the rows of a table that a login request's contact and password match
Matching(table, loginrequest) ==
    { i \in DOMAIN table :
        /\ table[i].contact = loginrequest.email
        /\ verify_password(loginrequest.password, table[i].password) }

\* C16 as stated: a login changes no table; with an unknown contact or a
\* password that does not verify it answers 401, and with a known contact
\* and verifying password it answers 200 with that record's id.
C16_LoginAnswers ==
    [][ resp'.op \in {"login_athlete", "login_institute"} =>
            LET table == IF resp'.op = "login_athlete"
                         THEN athlete ELSE institution
                rows == Matching(table, resp'.loginrequest)
            IN
            /\ UNCHANGED <<athlete, institution, tournament, endorsements>>
            /\ rows = {} => resp'.status = Unauthorized
            /\ rows # {} => (resp'.status = OK /\ resp'.user_id \in rows)
      ]_vars

\* the endorsements of a table for the triple a request names
SameTriple(table, request) ==
    { i \in DOMAIN table :
        /\ table[i].athlete_id = request.athlete_id
        /\ table[i].tournament_id = request.tournament_id
        /\ table[i].endorser_id = request.institute_id }

\* C17: a create for a triple (athlete, tournament, institution) that
\* already has one or more endorsements, pending or reviewed, answers 200
\* and adds one more pending endorsement of that triple under an id no
\* stored endorsement has, leaving every existing endorsement unchanged.
C17_DuplicateTripleAccepted ==
    [][ (/\ resp'.op = "create_endorsement_request"
         /\ SameTriple(endorsements, resp'.request) # {}) =>
            LET new == Len(endorsements) + 1 IN
            /\ resp'.status = OK
            /\ DOMAIN endorsements' = DOMAIN endorsements \cup {new}
            /\ new \notin DOMAIN endorsements
            /\ new \in SameTriple(endorsements', resp'.request)
            /\ Pending(endorsements'[new])
            /\ \A i \in DOMAIN endorsements : endorsements'[i] = endorsements[i]
      ]_vars

\* C17 witness: a create has just stored a second endorsement for a triple
\* whose first endorsement is already reviewed.
C17_Witness ==
    /\ resp.op = "create_endorsement_request"
    /\ resp.status = OK
    /\ Len(endorsements) = 2
    /\ SameTriple(endorsements, resp.request) = {1, 2}
    /\ endorsements[1].review
    /\ Pending(endorsements[2])

C18_WitnessReapproved ==
    /\ resp.op = "review_endorsement"
    /\ resp.status = OK
    /\ Rejected(resp.endorsement)
    /\ Approved(endorsements[resp.endorsement_id])

\* C19 as stated: whenever two concurrent reviews of the same existing
\* endorsement have both ended, both answered 200, the endorsement is
\* reviewed and its approve flag is the flag of the request that committed
\* last; and approve => review holds in every persisted state on the way.
C19_LastCommitterDecides ==
    /\ \A i \in DOMAIN endorsements :
            endorsements[i].approve => endorsements[i].review
    /\ (/\ sessions # << >>
        /\ sessions[1].endorsement_id = sessions[2].endorsement_id
        /\ sessions[1].endorsement_id \in DOMAIN endorsements
        /\ \A r \in Requests : sessions[r].pc \in {"done", "failed"}) =>
            /\ \A r \in Requests : sessions[r].status = OK
            /\ endorsements[sessions[1].endorsement_id].review
            /\ \E r \in Requests :
                /\ sessions[r].order = Cardinality(Requests)
                /\ endorsements[sessions[1].endorsement_id].approve =
                        sessions[r].approve

\* the answers get_ongoing_tournaments can give athlete a for tournament t
Eligibility(a, t) == { Status(e) : e \in First(EndorsementsFor(a, t)) }

\* C20: a review that answers 200 changes nothing but the review and
\* approve flags of the endorsement it names: that endorsement's athlete,
\* institution and tournament references, every other endorsement and
\* every athlete, institution and tournament record stay as they were, so
\* every other athlete's eligibility and matches_played stay as they were.
C20_ReviewFrame ==
    [][ (/\ resp'.op = "review_endorsement"
         /\ resp'.status = OK) =>
            LET id == resp'.endorsement_id IN
            /\ UNCHANGED <<athlete, institution, tournament>>
            /\ DOMAIN endorsements' = DOMAIN endorsements
            /\ \A i \in DOMAIN endorsements \ {id} :
                    endorsements'[i] = endorsements[i]
            /\ DOMAIN endorsements'[id] = DOMAIN endorsements[id]
            /\ \A column \in DOMAIN endorsements[id] \ {"review", "approve"} :
                    endorsements'[id][column] = endorsements[id][column]
            /\ \A a \in DOMAIN athlete \ {endorsements[id].athlete_id} :
                    /\ matches_played(a)' = matches_played(a)
                    /\ \A t \in DOMAIN tournament :
                            Eligibility(a, t)' = Eligibility(a, t)
      ]_vars

\* C20 witness: athlete 1's endorsement is rejected and a review has just
\* approved athlete 2's, leaving athlete 1 with no match and athlete 2
\* with one.
C20_Witness ==
    /\ resp.op = "review_endorsement"
    /\ resp.status = OK
    /\ resp.endorsement_id = 2
    /\ Len(endorsements) = 2
    /\ endorsements[1].athlete_id = 1
    /\ Rejected(endorsements[1])
    /\ endorsements[2].athlete_id = 2
    /\ Pending(resp.endorsement)
    /\ Approved(endorsements[2])
    /\ matches_played(1) = 0
    /\ matches_played(2) = 1

\* C21: while reviews with approve = true of a pending endorsement are in
\* flight, every persisted state holds it as pending or as approved, never
\* as rejected and never as approved without reviewed, and so does every
\* read: the eligibility read answers true, and matches_played is 0 or 1,
\* and 1 only once the endorsement is stored as approved.
C21_ReadSeesPendingOrApproved ==
    (/\ sessions # << >>
     /\ \A r \in Requests :
            sessions[r].endorsement_id = 1 => sessions[r].approve) =>
        /\ Pending(endorsements[1]) \/ Approved(endorsements[1])
        /\ (resp.op = "get_ongoing_tournaments" /\ resp.athlete_id = 1) =>
                resp.body[1] = TRUE
        /\ (resp.op = "get_athlete_details" /\ resp.athlete_id = 1) =>
                /\ resp.status = OK
                /\ resp.matches_played \in {0, 1}
                /\ resp.matches_played = 1 => Approved(endorsements[1])

\* C21 witness: an approving review of endorsement 1 has committed and not
\* yet answered, and a read in between has counted the endorsement as
\* approved.
C21_Witness ==
    /\ sessions # << >>
    /\ sessions[1].endorsement_id = 1
    /\ sessions[1].approve
    /\ sessions[1].pc = "refresh"
    /\ sessions[2].endorsement_id # 1
    /\ resp.op = "get_athlete_details"
    /\ resp.athlete_id = 1
    /\ resp.matches_played = 1
    /\ Approved(endorsements[1])

\* the result columns of a tournament row are those of a request
ResultsOf(row, request) ==
    /\ row.winner = request.winner
    /\ row.runnerup = request.runnerup
    /\ row.winnerscore = request.winnerscore
    /\ row.runnerscore = request.runnerscore

\* C22 as stated: whenever two concurrent finalize calls on the same
\* tournament have both ended, the tournament is not ongoing and its
\* winner, runnerup, winnerscore and runnerscore are all those of one of
\* the two requests.
C22_ResultsFromOneRequest ==
    (/\ sessions # << >>
     /\ sessions[1].tournament_id = sessions[2].tournament_id
     /\ sessions[1].tournament_id \in DOMAIN tournament
     /\ \A r \in Requests : sessions[r].pc \in {"done", "failed"}) =>
        /\ ~tournament[sessions[1].tournament_id].ongoing
        /\ \E r \in Requests :
                ResultsOf(tournament[sessions[1].tournament_id],
                          sessions[r].request)

\* C23: in every reachable state a tournament that is ongoing has winner
\* and runnerup unset and both scores at their default 0, and a tournament
\* that is not ongoing has winner, runnerup, winnerscore and runnerscore
\* all set.
C23_ResultsIffFinalized ==
    \A t \in DOMAIN tournament :
        IF tournament[t].ongoing
        THEN /\ tournament[t].winner = None
             /\ tournament[t].runnerup = None
             /\ tournament[t].winnerscore = 0
             /\ tournament[t].runnerscore = 0
        ELSE /\ tournament[t].winner # None
             /\ tournament[t].runnerup # None
             /\ tournament[t].winnerscore \in Int
             /\ tournament[t].runnerscore \in Int

\* C23 witness: a finalization has just stored the results of tournament 1.
C23_Witness ==
    /\ resp.op = "update_tournament_results"
    /\ resp.status = OK
    /\ ~tournament[resp.tournament_id].ongoing
    /\ tournament[resp.tournament_id].winner # None

\* C24 as stated: in every state reached by athlete registrations and
\* profile updates no two athlete records hold the same contact, so a
\* login by contact finds at most one athlete.
C24_ContactsUnique ==
    /\ \A i, j \in DOMAIN athlete :
            athlete[i].contact = athlete[j].contact => i = j
    /\ \A email \in AthleteContacts :
            Cardinality(RowsByContact(athlete, email)) <= 1

\* C25 as stated: a create that names an athlete, institution or
\* tournament id no stored record has answers 404 and stores no
\* endorsement, and after every step each endorsement references an
\* existing athlete, an existing institution and an existing tournament.
C25_UnknownReferenceIsNotFound ==
    [][ /\ (/\ resp'.op = "create_endorsement_request"
            /\ \/ resp'.request.athlete_id \notin DOMAIN athlete
               \/ resp'.request.institute_id \notin DOMAIN institution
               \/ resp'.request.tournament_id \notin DOMAIN tournament) =>
                /\ resp'.status = NotFound
                /\ endorsements' = endorsements
        /\ \A i \in DOMAIN endorsements' :
                /\ endorsements'[i].athlete_id \in DOMAIN athlete'
                /\ endorsements'[i].endorser_id \in DOMAIN institution'
                /\ endorsements'[i].tournament_id \in DOMAIN tournament'
      ]_vars

\* C26: every answer of the athlete's status view has one entry for each
\* tournament with ongoing = true and none for a tournament that is not
\* ongoing, whatever endorsements the athlete has, and the view changes no
\* table.
C26_ViewListsOngoingOnly ==
    [][ resp'.op = "get_ongoing_tournaments" =>
            /\ resp'.status = OK
            /\ DOMAIN resp'.body =
                    { t \in DOMAIN tournament : tournament[t].ongoing }
            /\ UNCHANGED <<athlete, institution, tournament, endorsements>>
      ]_vars

\* C26 witness: the view has just answered an athlete whose endorsement for
\* tournament 1 is approved, tournament 1 is finalized, and the answer has
\* no entry.
C26_Witness ==
    /\ resp.op = "get_ongoing_tournaments"
    /\ resp.status = OK
    /\ 1 \in DOMAIN tournament
    /\ ~tournament[1].ongoing
    /\ \E i \in EndorsementsFor(resp.athlete_id, 1) : Approved(endorsements[i])
    /\ 1 \notin DOMAIN resp.body

\* C27: an endorsement with review = true stays stored with review = true
\* through every step, so it never counts as pending again.
C27_ReviewedStaysReviewed ==
    [][ \A i \in DOMAIN endorsements :
            endorsements[i].review =>
                /\ i \in DOMAIN endorsements'
                /\ endorsements'[i].review
                /\ ~Pending(endorsements'[i])
      ]_vars

\* C27 witness: a review has just loaded a rejected endorsement, rejected
\* it again, and it is still reviewed.
C27_Witness ==
    /\ resp.op = "review_endorsement"
    /\ resp.status = OK
    /\ Rejected(resp.endorsement)
    /\ ~resp.approve
    /\ endorsements[resp.endorsement_id].review

====
